---- MODULE Spec2Model ----
(***************************************************************************)
(* Model of PaymentModule (app.py): validation, pricing, access-token      *)
(* acquisition, the STK push request and the grace-period failure policy.  *)
(*                                                                         *)
(* Python values are modelled as follows.                                  *)
(*   - an optional value (None or x) is the set {} or {x};                 *)
(*   - a str used as data is a sequence of one-character strings;          *)
(*   - a JSON object (dict) is a function from key names to tagged values  *)
(*     [t |-> <python type>, v |-> <repr>];                                *)
(*   - datetime values are integers counting days; timedelta(days=d) is d. *)
(***************************************************************************)
EXTENDS Integers, Sequences, FiniteSets, TLC

VARIABLES
    failed_payment_attempts,  \* self.failed_payment_attempts
    grace_period_end,         \* self.grace_period_end: {} is None, {t} a datetime
    now,                      \* the wall clock read by datetime.now()
    call,                     \* arguments of the latest initiate_payment call
    net,                      \* HTTP requests issued by the latest call, in order
    notices,                  \* notices printed by handle_payment_failure in that call
    ret,                      \* how the latest call ended (value returned or exception)
    threads,                  \* calls running in parallel on the instance, step by step
    probe                     \* a direct call of one method or endpoint, and its result

vars == <<failed_payment_attempts, grace_period_end, now, call, net, notices, ret,
          threads, probe>>

----------------------------------------------------------------------------
\* Bounds of the model.

MaxTime == 8        \* the clock runs over 0..MaxTime days
MaxAttempts == 3    \* failures recorded on one instance
BranchSlack == 2    \* num_branches ranges this far outside 0..MAX_BRANCHES_PER_ACTION

----------------------------------------------------------------------------
\* Class constants.

MAX_BRANCHES_PER_ACTION == 10
GRACE_PERIOD_DAYS == 7
BRANCH_FEE == 100

SUBSCRIPTION_TIERS ==
    [ starter    |-> [price |-> 100, limit |-> {10}],
      pro        |-> [price |-> 300, limit |-> {100}],
      enterprise |-> [price |-> 500, limit |-> {}] ]

----------------------------------------------------------------------------
\* Python values.

PyNone == [t |-> "NoneType", v |-> "None"]
PyStr(s) == [t |-> "str", v |-> s]
PyInt(s) == [t |-> "int", v |-> s]

\* bool(x) for the values that occur: None and the empty str are falsy.
Truthy(x) == ~(x = PyNone \/ x = PyStr(""))

\* dict.get(key): the value, or None when the key is absent.
DictGet(d, key) == IF key \in DOMAIN d THEN d[key] ELSE PyNone

EmptyDict == [k \in {} |-> PyNone]

\* str.lower() on the tier names that occur.
Lower(s) ==
    CASE s = "Pro" -> "pro"
      [] s = "STARTER" -> "starter"
      [] OTHER -> s

----------------------------------------------------------------------------
\* HTTP exchanges.  error is the requests exception raised by the transport
\* ("" when a response arrived), status the response's status code and json
\* the parsed body.

Exchange(error, status, json) == [error |-> error, status |-> status, json |-> json]

TokenExchanges ==
    { Exchange("ConnectionError", 0, EmptyDict),
      Exchange("", 401, [errorMessage |-> PyStr("Bad credentials")]),
      Exchange("", 200, [expires_in |-> PyStr("3599")]),
      Exchange("", 200, [access_token |-> PyStr(""), expires_in |-> PyStr("3599")]),
      Exchange("", 200, [access_token |-> PyStr("tok"), expires_in |-> PyStr("3599")]) }

PushExchanges ==
    { Exchange("ConnectionError", 0, EmptyDict),
      Exchange("", 200, [ResponseCode |-> PyStr("0")]),
      Exchange("", 200, [ResponseCode |-> PyStr("1")]),
      Exchange("", 200, [ResponseCode |-> PyInt("0")]),
      Exchange("", 400, [errorCode |-> PyStr("400.002.02")]) }

\* response.raise_for_status(): HTTPError for a 4xx or 5xx status.
RaisesForStatus(x) == x.status >= 400 /\ x.status < 600

\* get_access_token: the value returned for a given token exchange.
GetAccessToken(x) ==
    IF x.error # "" \/ RaisesForStatus(x)
    THEN PyNone
    ELSE DictGet(x.json, "access_token")

----------------------------------------------------------------------------
\* Validation.

AsciiDigits == {"0", "1", "2", "3", "4", "5", "6", "7", "8", "9"}
\* \d of a str pattern also matches the other Unicode decimal digits.
UnicodeDigits == {"U+0663"}
IsDigit(c) == c \in AsciiDigits \cup UnicodeDigits

\* re.compile(r"^2547\d{8}$").match(phone_number): $ matches at the end of the
\* string and also just before a newline that ends the string.
ValidatePhoneNumber(p) ==
    /\ Len(p) = 12 \/ (Len(p) = 13 /\ p[13] = "\n")
    /\ p[1] = "2" /\ p[2] = "5" /\ p[3] = "4" /\ p[4] = "7"
    /\ \A i \in 5..12 : IsDigit(p[i])

ValidateBranchLimitAtLeast(subscription_tier, num_branches) ==
    IF num_branches >= MAX_BRANCHES_PER_ACTION
    THEN "False"
    ELSE IF subscription_tier \notin DOMAIN SUBSCRIPTION_TIERS
    THEN "KeyError"
    ELSE LET tier_limit == SUBSCRIPTION_TIERS[subscription_tier].limit IN
         IF tier_limit # {} /\ (\E l \in tier_limit : num_branches >= l)
         THEN "False"
         ELSE "True"

\* validate_branch_limit ends by returning a bool or by raising KeyError.
ValidateBranchLimit(subscription_tier, num_branches) ==
    IF num_branches > MAX_BRANCHES_PER_ACTION
    THEN "False"
    ELSE IF subscription_tier \notin DOMAIN SUBSCRIPTION_TIERS
    THEN "KeyError"
    ELSE LET tier_limit == SUBSCRIPTION_TIERS[subscription_tier].limit IN
         IF tier_limit # {} /\ (\E l \in tier_limit : num_branches > l)
         THEN "False"
         ELSE "True"

TotalAmountFlat(tier_details, num_branches) ==
    tier_details.price

\* total_amount = base_price + num_branches * 100
TotalAmount(tier_details, num_branches) ==
    tier_details.price + num_branches * BRANCH_FEE

----------------------------------------------------------------------------
\* Failure policy.

Notice(text, deadline) == [text |-> text, deadline |-> deadline]

NoticeForInclusive(attempts, gpe, t) ==
    IF attempts = 1 THEN Notice("grace period started", {})
    ELSE IF gpe = {} THEN Notice("TypeError", {})
    ELSE IF \E e \in gpe : t <= e THEN Notice("time remaining", gpe)
    ELSE Notice("suspended", {})

\* The branch of handle_payment_failure taken once the count is attempts, and
\* what it prints; the "time remaining" notice carries grace_period_end.
\* Comparing datetime.now() with an unset grace_period_end raises TypeError.
NoticeFor(attempts, gpe, t) ==
    IF attempts = 1 THEN Notice("grace period started", {})
    ELSE IF gpe = {} THEN Notice("TypeError", {})
    ELSE IF \E e \in gpe : t < e THEN Notice("time remaining", gpe)
    ELSE Notice("suspended", {})

GracePeriodEndShort(attempts, gpe, t) ==
    IF attempts = 1 THEN {t} ELSE gpe

GracePeriodEndRestarted(attempts, gpe, t) ==
    IF attempts >= 1 THEN {t + GRACE_PERIOD_DAYS} ELSE gpe

GracePeriodEndCutShort(attempts, gpe, t) ==
    IF attempts = 1 THEN {t + GRACE_PERIOD_DAYS} ELSE {t}

\* grace_period_end after the branch: set on the first failure only.
GracePeriodEndAfter(attempts, gpe, t) ==
    IF attempts = 1 THEN {t + GRACE_PERIOD_DAYS} ELSE gpe

\* handle_payment_failure run at time t on (attempts, gpe): the new field
\* values and the notice printed.
HandlePaymentFailure(attempts, gpe, t) ==
    LET n == attempts + 1
        after == GracePeriodEndAfter(n, gpe, t)
    IN
    [ attempts |-> n, gpe |-> after, notice |-> NoticeFor(n, after, t) ]

----------------------------------------------------------------------------
\* Inputs.

Phone254 == <<"2", "5", "4", "7", "1", "2", "3", "4", "5", "6", "7", "8">>
Phone07 == <<"0", "7", "1", "2", "3", "4", "5", "6", "7", "8">>
Phones == {Phone254, Phone07}

TierNames == {"starter", "pro", "enterprise", "Pro", "gold"}

BranchInputs ==
    {0 - BranchSlack, 0, 5, MAX_BRANCHES_PER_ACTION,
     MAX_BRANCHES_PER_ACTION + BranchSlack}

----------------------------------------------------------------------------
\* Constructor arguments of the instance (the example of app.py).

shortcode == <<"6", "0", "0", "9", "7", "7">>
callback_url == "http://127.0.0.1:5000/callback"

\* f"Vendor_{phone_number}"
AccountReference(phone_number) == <<"V", "e", "n", "d", "o", "r", "_">> \o phone_number

PayloadFromShortcode(phone_number, total_amount) ==
    [ BusinessShortCode |-> shortcode,
      TransactionType   |-> "CustomerBuyGoodsOnline",
      Amount            |-> total_amount,
      PartyA            |-> shortcode,
      PartyB            |-> shortcode,
      PhoneNumber       |-> phone_number,
      CallBackURL       |-> callback_url,
      AccountReference  |-> AccountReference(phone_number) ]

\* The JSON body of the push request (Password and Timestamp, which no
\* decision of the module reads, are left out).
Payload(phone_number, total_amount) ==
    [ BusinessShortCode |-> shortcode,
      TransactionType   |-> "CustomerBuyGoodsOnline",
      Amount            |-> total_amount,
      PartyA            |-> phone_number,
      PartyB            |-> shortcode,
      PhoneNumber       |-> phone_number,
      CallBackURL       |-> callback_url,
      AccountReference  |-> AccountReference(phone_number) ]

Request(method, url, json, exchange) ==
    [method |-> method, url |-> url, json |-> json, exchange |-> exchange]

\* How a call ends.
ReturnNone == [kind |-> "None", body |-> EmptyDict]
ReturnBody(d) == [kind |-> "dict", body |-> d]
Raise(exc) == [kind |-> exc, body |-> EmptyDict]
NotCalled == [kind |-> "not called", body |-> EmptyDict]

ValidationSkipsBranchLimit(phone_number, subscription_tier, num_branches) ==
    IF ~ValidatePhoneNumber(phone_number) THEN ReturnNone
    ELSE IF Lower(subscription_tier) \notin DOMAIN SUBSCRIPTION_TIERS THEN ReturnNone
    ELSE NotCalled

\* The checks that open initiate_payment: how they end the call, or
\* NotCalled when the call goes on to the network steps.
Validation(phone_number, subscription_tier, num_branches) ==
    LET branch_ok == ValidateBranchLimit(subscription_tier, num_branches) IN
    IF ~ValidatePhoneNumber(phone_number) THEN ReturnNone
    ELSE IF branch_ok = "KeyError" THEN Raise("KeyError")
    ELSE IF branch_ok = "False" THEN ReturnNone
    ELSE IF Lower(subscription_tier) \notin DOMAIN SUBSCRIPTION_TIERS THEN ReturnNone
    ELSE NotCalled

TokenAcceptedUnlessNone(access_token) == access_token # PyNone

\* "if not access_token" is false: the call goes on to the push request.
TokenAccepted(access_token) == Truthy(access_token)

GatewayAcceptedAnyZero(response_data) == DictGet(response_data, "ResponseCode").v = "0"

GatewayAcceptedIntZero(response_data) == DictGet(response_data, "ResponseCode") = PyInt("0")

\* response_data.get("ResponseCode") != "0" is false.
GatewayAccepted(response_data) == DictGet(response_data, "ResponseCode") = PyStr("0")

PushOutcomeIgnoresRejection(px) ==
    IF px.error # ""
    THEN [failed |-> TRUE, result |-> ReturnNone]
    ELSE [failed |-> FALSE, result |-> ReturnBody(px.json)]

PushOutcomeSilentTransportError(px) ==
    IF px.error # ""
    THEN [failed |-> FALSE, result |-> ReturnNone]
    ELSE [failed |-> ~GatewayAccepted(px.json), result |-> ReturnBody(px.json)]

\* The try/except around the push request: whether handle_payment_failure
\* is invoked, and what the call returns.
PushOutcome(px) ==
    IF px.error # ""
    THEN [failed |-> TRUE, result |-> ReturnNone]
    ELSE [failed |-> ~GatewayAccepted(px.json), result |-> ReturnBody(px.json)]

----------------------------------------------------------------------------
\* The state machine.

NoArgs == [phone_number |-> <<>>, subscription_tier |-> "", num_branches |-> 0]

\* The threads that may call initiate_payment on the one instance, each
\* before its call: pc is its position, read the count its handler read,
\* pending the value it will return after the handler, events its requests
\* and handler runs in order.
Threads == {"t1", "t2"}
ThreadStart ==
    [pc |-> "start", args |-> NoArgs, read |-> 0, pending |-> NotCalled,
     ret |-> NotCalled, events |-> <<>>]

NoProbe == [fn |-> "none"]

\* A new instance on which nothing was called.
Fresh ==
    /\ failed_payment_attempts = 0
    /\ grace_period_end = {}
    /\ now = 0
    /\ call = NoArgs
    /\ net = <<>>
    /\ notices = <<>>
    /\ ret = NotCalled
    /\ threads = [t \in Threads |-> ThreadStart]

Init == Fresh /\ probe = NoProbe

\* The end of a call: what it sent and printed, how it ended, and the
\* FailureState it leaves.
End(args, requests, printed, result, attempts, gpe) ==
    /\ call' = args
    /\ net' = requests
    /\ notices' = printed
    /\ ret' = result
    /\ failed_payment_attempts' = attempts
    /\ grace_period_end' = gpe
    /\ UNCHANGED <<now, threads, probe>>

AbortResettingOnSuccess(args, requests, result) ==
    IF result.kind = "dict"
    THEN End(args, requests, <<>>, result, 0, {})
    ELSE End(args, requests, <<>>, result, failed_payment_attempts, grace_period_end)

\* A call that ends without touching FailureState.
Abort(args, requests, result) ==
    End(args, requests, <<>>, result, failed_payment_attempts, grace_period_end)

\* A call whose push step failed: handle_payment_failure runs, and the call
\* ends with result unless the handler raises.
Fail(args, requests, result) ==
    LET f == HandlePaymentFailure(failed_payment_attempts, grace_period_end, now) IN
    /\ failed_payment_attempts < MaxAttempts
    /\ IF f.notice.text = "TypeError"
       THEN End(args, requests, <<>>, Raise("TypeError"), f.attempts, f.gpe)
       ELSE End(args, requests, <<f.notice>>, result, f.attempts, f.gpe)

\* initiate_payment(phone_number, subscription_tier, num_branches)
InitiatePayment(phone_number, subscription_tier, num_branches) ==
    LET args == [phone_number |-> phone_number,
                 subscription_tier |-> subscription_tier,
                 num_branches |-> num_branches]
        invalid == Validation(phone_number, subscription_tier, num_branches)
    IN
    IF invalid # NotCalled THEN Abort(args, <<>>, invalid)
    ELSE
      LET tier_details == SUBSCRIPTION_TIERS[Lower(subscription_tier)]
          total_amount == TotalAmount(tier_details, num_branches)
      IN
      \E tx \in TokenExchanges :
        LET access_token == GetAccessToken(tx)
            get == Request("GET", "token_url", EmptyDict, tx)
        IN
        IF ~TokenAccepted(access_token) THEN Abort(args, <<get>>, ReturnNone)
        ELSE
          \E px \in PushExchanges :
            LET post == Request("POST", "stk_push_url",
                                Payload(phone_number, total_amount), px)
                out == PushOutcome(px)
            IN
            IF out.failed
            THEN Fail(args, <<get, post>>, out.result)
            ELSE Abort(args, <<get, post>>, out.result)

\* Time passes between calls.
Tick ==
    /\ now < MaxTime
    /\ now' = now + 1
    /\ UNCHANGED <<failed_payment_attempts, grace_period_end, call, net, notices, ret,
                   threads, probe>>

Call ==
    \E phone_number \in Phones, subscription_tier \in TierNames,
       num_branches \in BranchInputs :
        InitiatePayment(phone_number, subscription_tier, num_branches)

Next == Call \/ Tick

Spec == Init /\ [][Next]_vars

----------------------------------------------------------------------------
\* Vocabulary of the properties.  A step that leaves the clock alone is a
\* call of initiate_payment; in the state after it, call, net, notices and
\* ret describe that call.

CallStep == now' = now

FailureStateUnchanged ==
    /\ failed_payment_attempts' = failed_payment_attempts
    /\ grace_period_end' = grace_period_end

\* The latest call issued the push request (so it passed validation and
\* obtained a token).
PushSent == Len(net) = 2 /\ net[2].method = "POST"

PushTransportError == PushSent /\ net[2].exchange.error # ""

PushAnswered == PushSent /\ net[2].exchange.error = ""

\* The gateway's body carries ResponseCode "0" (the str) / anything else.
PushAcceptedByGateway ==
    /\ PushAnswered
    /\ "ResponseCode" \in DOMAIN net[2].exchange.json
    /\ net[2].exchange.json["ResponseCode"] = PyStr("0")

PushRejectedByGateway == PushAnswered /\ ~PushAcceptedByGateway

\* The token request of the latest call yielded no token.
TokenRequested == Len(net) >= 1 /\ net[1].method = "GET"

NoTokenYielded ==
    /\ TokenRequested
    /\ LET x == net[1].exchange IN
       \/ x.error # ""
       \/ x.status \notin 200..299
       \/ "access_token" \notin DOMAIN x.json
       \/ x.json["access_token"] = PyStr("")

\* handle_payment_failure ran in the latest call.
HandlerRan == notices # <<>> \/ ret.kind = "TypeError"

InGracePeriod == failed_payment_attempts >= 1 /\ \E e \in grace_period_end : now < e
Suspended == failed_payment_attempts >= 1 /\ \E e \in grace_period_end : now >= e

----------------------------------------------------------------------------
\* C1  Gateway rejection: a call that reached the push step and got a body
\* whose ResponseCode is not the str "0" (or is absent) runs
\* handle_payment_failure exactly once, so failed_payment_attempts grows by
\* exactly 1, and returns that body, not None.
C1_GatewayRejection ==
    [][ (CallStep /\ PushRejectedByGateway') =>
          /\ failed_payment_attempts' = failed_payment_attempts + 1
          /\ Len(notices') = 1
          /\ ret' = ReturnBody(net'[2].exchange.json) ]_vars

C1_Witness ==
    /\ PushRejectedByGateway
    /\ "ResponseCode" \notin DOMAIN net[2].exchange.json
    /\ ret = ReturnBody(net[2].exchange.json)
    /\ Len(notices) = 1
    /\ failed_payment_attempts = 2

\* C2  Success leaves FailureState untouched: a call whose gateway body has
\* ResponseCode "0" returns that body and changes neither
\* failed_payment_attempts nor grace_period_end.
C2_SuccessFrame ==
    [][ (CallStep /\ PushAcceptedByGateway') =>
          /\ ret' = ReturnBody(net'[2].exchange.json)
          /\ notices' = <<>>
          /\ FailureStateUnchanged ]_vars

C2_Witness ==
    /\ PushAcceptedByGateway
    /\ ret = ReturnBody([ResponseCode |-> PyStr("0")])
    /\ failed_payment_attempts = 1
    /\ grace_period_end # {}

\* C3  Transport error: a call whose push request fails in transport runs
\* handle_payment_failure exactly once (failed_payment_attempts grows by
\* exactly 1) and returns None.
C3_TransportError ==
    [][ (CallStep /\ PushTransportError') =>
          /\ failed_payment_attempts' = failed_payment_attempts + 1
          /\ Len(notices') = 1
          /\ ret' = ReturnNone ]_vars

C3_Witness ==
    /\ PushTransportError
    /\ ret = ReturnNone
    /\ Len(notices) = 1
    /\ failed_payment_attempts = 1

\* C4  Auth failure: when the token request yields no token (transport
\* failure, non-2xx status, or a body without a non-empty access_token) the
\* call returns None, sends no push request and leaves FailureState unchanged.
C4_AuthFailureFrame ==
    [][ (CallStep /\ NoTokenYielded') =>
          /\ ret' = ReturnNone
          /\ Len(net') = 1
          /\ notices' = <<>>
          /\ FailureStateUnchanged ]_vars

C4_Witness ==
    /\ NoTokenYielded
    /\ net[1].exchange.status = 200
    /\ "access_token" \in DOMAIN net[1].exchange.json
    /\ ret = ReturnNone
    /\ Len(net) = 1
    /\ failed_payment_attempts = 1

\* C5  Validation failures come before any network call: when the phone
\* number fails validate_phone_number, or the branch count fails
\* validate_branch_limit, the call returns None, issues neither the token GET
\* nor the push POST, and leaves FailureState unchanged.
C5_ValidationBeforeNetwork ==
    [][ ( /\ CallStep
          /\ \/ ~ValidatePhoneNumber(call'.phone_number)
             \/ ValidateBranchLimit(call'.subscription_tier, call'.num_branches) = "False" )
        =>
          /\ ret' = ReturnNone
          /\ net' = <<>>
          /\ notices' = <<>>
          /\ FailureStateUnchanged ]_vars

C5_Witness ==
    /\ ValidatePhoneNumber(call.phone_number)
    /\ call.subscription_tier = "starter"
    /\ call.num_branches > MAX_BRANCHES_PER_ACTION
    /\ ret = ReturnNone
    /\ net = <<>>
    /\ failed_payment_attempts = 1

\* C6  Unknown tier aborts with null: a call with a valid phone number, at
\* most 10 branches and a tier name that is no key of the tier table returns
\* None as a value (it does not raise), performs no network call and leaves
\* FailureState unchanged.
C6_UnknownTierReturnsNone ==
    [][ ( /\ CallStep
          /\ ValidatePhoneNumber(call'.phone_number)
          /\ call'.num_branches <= MAX_BRANCHES_PER_ACTION
          /\ call'.subscription_tier \notin DOMAIN SUBSCRIPTION_TIERS )
        =>
          /\ ret' = ReturnNone
          /\ net' = <<>>
          /\ FailureStateUnchanged ]_vars

\* C7  First failure starts the grace period: handle_payment_failure run with
\* failed_payment_attempts = 0 leaves failed_payment_attempts = 1 and
\* grace_period_end = time of the call + 7 days, and prints the "grace period
\* started" notice.
C7_FirstFailure ==
    [][ (CallStep /\ HandlerRan' /\ failed_payment_attempts = 0) =>
          /\ failed_payment_attempts' = 1
          /\ grace_period_end' = {now + 7}
          /\ notices' = <<Notice("grace period started", {})>> ]_vars

C7_Witness ==
    /\ now = 1
    /\ failed_payment_attempts = 1
    /\ grace_period_end = {8}
    /\ notices = <<Notice("grace period started", {})>>

\* C8  Failure inside the grace period: handle_payment_failure run with
\* failed_payment_attempts >= 1 and now < grace_period_end adds exactly 1 to
\* failed_payment_attempts, leaves grace_period_end unchanged and prints the
\* "time remaining" notice carrying that deadline.
C8_FailureInGracePeriod ==
    [][ (CallStep /\ HandlerRan' /\ InGracePeriod) =>
          /\ failed_payment_attempts' = failed_payment_attempts + 1
          /\ grace_period_end' = grace_period_end
          /\ notices' = <<Notice("time remaining", grace_period_end)>> ]_vars

C8_Witness ==
    /\ failed_payment_attempts = 3
    /\ grace_period_end = {7}
    /\ now = 6
    /\ notices = <<Notice("time remaining", {7})>>

\* C9  Failure after the grace period: handle_payment_failure run with
\* failed_payment_attempts >= 1 and now >= grace_period_end prints the
\* "suspended" notice, adds exactly 1 to failed_payment_attempts and leaves
\* grace_period_end unchanged; and the instance, once Suspended, is Suspended
\* after every step (the clock never runs backwards), so every later
\* handle_payment_failure prints "suspended" too.
C9_FailureAfterGracePeriod ==
    [][ /\ (CallStep /\ HandlerRan' /\ Suspended) =>
              /\ failed_payment_attempts' = failed_payment_attempts + 1
              /\ grace_period_end' = grace_period_end
              /\ notices' = <<Notice("suspended", {})>>
        /\ Suspended => Suspended' ]_vars

C9_Witness ==
    /\ failed_payment_attempts = 3
    /\ grace_period_end = {7}
    /\ now = 7
    /\ notices = <<Notice("suspended", {})>>

\* C10  Across any sequence of calls, grace_period_end, once set, stays set
\* and is never replaced by an earlier time.
C10_GracePeriodEndNeverEarlier ==
    [][ grace_period_end # {} =>
          /\ grace_period_end' # {}
          /\ \A e \in grace_period_end : \A f \in grace_period_end' : f >= e ]_vars

C10_Witness ==
    /\ grace_period_end = {7}
    /\ failed_payment_attempts = 3
    /\ now = 8
    /\ PushAcceptedByGateway

\* C11  No return to Clean: FailureState starts at failed_payment_attempts = 0
\* with no grace_period_end, is changed only by a step in which
\* handle_payment_failure ran, and failed_payment_attempts never decreases, so
\* once it is >= 1 it stays >= 1, later successful payments included.
C11_NoReturnToClean ==
    /\ failed_payment_attempts = 0 /\ grace_period_end = {}
    /\ [][ /\ failed_payment_attempts' >= failed_payment_attempts
           /\ ~FailureStateUnchanged => (CallStep /\ HandlerRan')
           /\ failed_payment_attempts >= 1 => failed_payment_attempts' >= 1 ]_vars

C11_Witness ==
    /\ failed_payment_attempts = 2
    /\ PushAcceptedByGateway
    /\ ret.kind = "dict"
    /\ notices = <<>>

\* C14  Every push request that is sent carries a branch count in 0..10 and
\* a non-negative Amount, whatever integer num_branches the caller passed.
C14_SentBranchCountAndAmountInRange ==
    PushSent =>
        /\ call.num_branches \in 0..10
        /\ net[2].json.Amount >= 0

\* C15 (as claimed)  In every push payload the phone number is PartyA, PartyB
\* and PhoneNumber, TransactionType is "CustomerBuyGoodsOnline" and
\* AccountReference is "Vendor_" followed by the phone number.
C15_PhoneIsBothParties ==
    PushSent =>
        /\ net[2].json.PartyA = call.phone_number
        /\ net[2].json.PartyB = call.phone_number
        /\ net[2].json.PhoneNumber = call.phone_number
        /\ net[2].json.TransactionType = "CustomerBuyGoodsOnline"
        /\ net[2].json.AccountReference
             = <<"V", "e", "n", "d", "o", "r", "_">> \o call.phone_number

\* C15 (amended)  In every push payload the phone number is PartyA and
\* PhoneNumber, PartyB is the business shortcode of the instance,
\* TransactionType is "CustomerBuyGoodsOnline" and AccountReference is
\* "Vendor_" followed by the phone number.
C15_PayloadParties ==
    PushSent =>
        /\ net[2].json.PartyA = call.phone_number
        /\ net[2].json.PartyB = <<"6", "0", "0", "9", "7", "7">>
        /\ net[2].json.PartyB = net[2].json.BusinessShortCode
        /\ net[2].json.PhoneNumber = call.phone_number
        /\ net[2].json.TransactionType = "CustomerBuyGoodsOnline"
        /\ net[2].json.AccountReference
             = <<"V", "e", "n", "d", "o", "r", "_">> \o call.phone_number

C15_Witness ==
    /\ PushSent
    /\ call.phone_number = Phone254
    /\ net[2].json.PartyA = Phone254
    /\ net[2].json.PartyB # Phone254
    /\ net[2].json.AccountReference[7] = "_"
    /\ Len(net[2].json.AccountReference) = 19

\* C20  Sequential consistency of FailureState: from 0, every call adds 1 to
\* failed_payment_attempts when it ended in a transport error or a gateway
\* rejection and adds nothing otherwise, so the count equals the number of
\* such calls; and grace_period_end is unset exactly when the count is 0.
C20_SequentialConsistency ==
    /\ failed_payment_attempts = 0 /\ grace_period_end = {}
    /\ [][ CallStep =>
             failed_payment_attempts' = failed_payment_attempts +
                 (IF PushTransportError' \/ PushRejectedByGateway' THEN 1 ELSE 0) ]_vars
    /\ []((grace_period_end = {}) <=> (failed_payment_attempts = 0))

C20_Witness ==
    /\ failed_payment_attempts = 2
    /\ grace_period_end # {}
    /\ NoTokenYielded
    /\ now = 3

----------------------------------------------------------------------------
\* Pricing: calls with every branch count around 0..MAX_BRANCHES_PER_ACTION.

AllBranchInputs == (0 - BranchSlack)..(MAX_BRANCHES_PER_ACTION + BranchSlack)

CallAnyBranches ==
    \E phone_number \in Phones, subscription_tier \in TierNames,
       num_branches \in AllBranchInputs :
        InitiatePayment(phone_number, subscription_tier, num_branches)

NextPricing == CallAnyBranches

SpecPricing == Init /\ [][NextPricing]_vars

\* C12  Pricing: for every tier in {starter, pro, enterprise} and every branch
\* count n in 0..10, the Amount of the push payload is basePrice(tier) + 100*n
\* with base prices 100, 300 and 500.
C12_Pricing ==
    (PushSent /\ call.num_branches \in 0..10) =>
        LET base == CASE call.subscription_tier = "starter" -> 100
                      [] call.subscription_tier = "pro" -> 300
                      [] call.subscription_tier = "enterprise" -> 500
                      [] OTHER -> 0 - 1
        IN net[2].json.Amount = base + 100 * call.num_branches

C12_Witness ==
    /\ PushSent
    /\ call.subscription_tier = "starter"
    /\ call.num_branches = 10
    /\ net[2].json.Amount = 1100

----------------------------------------------------------------------------
\* validate_branch_limit called directly on a tier name and a count.

LargestTierLimit ==
    LET limits == UNION {SUBSCRIPTION_TIERS[t].limit : t \in DOMAIN SUBSCRIPTION_TIERS}
    IN CHOOSE l \in limits : \A m \in limits : m <= l

BranchLimitCounts == (0 - BranchSlack)..(LargestTierLimit + BranchSlack)

BranchLimitProbes ==
    { [fn |-> "validate_branch_limit", subscription_tier |-> t, num_branches |-> n,
       result |-> "pending"] : t \in TierNames, n \in BranchLimitCounts }

InitBranchLimit == Fresh /\ probe \in BranchLimitProbes

ApplyValidateBranchLimit ==
    /\ probe.fn = "validate_branch_limit"
    /\ probe.result = "pending"
    /\ probe' = [probe EXCEPT !.result =
                    ValidateBranchLimit(probe.subscription_tier, probe.num_branches)]
    /\ UNCHANGED <<failed_payment_attempts, grace_period_end, now, call, net, notices,
                   ret, threads>>

NextBranchLimit == ApplyValidateBranchLimit

SpecBranchLimit == InitBranchLimit /\ [][NextBranchLimit]_vars

\* C13  Branch-count validation: for every known tier and every count,
\* validate_branch_limit returns False exactly when count > 10 or the tier has
\* a finite limit (starter 10, pro 100) and count exceeds it, and True
\* otherwise.
C13_BranchLimit ==
    ( /\ probe.fn = "validate_branch_limit"
      /\ probe.result # "pending"
      /\ probe.subscription_tier \in {"starter", "pro", "enterprise"} )
    =>
      LET n == probe.num_branches
          over == \/ n > 10
                  \/ probe.subscription_tier = "starter" /\ n > 10
                  \/ probe.subscription_tier = "pro" /\ n > 100
      IN probe.result = (IF over THEN "False" ELSE "True")

C13_Witness ==
    /\ probe.fn = "validate_branch_limit"
    /\ probe.subscription_tier = "starter"
    /\ probe.num_branches = 10
    /\ probe.result = "True"

----------------------------------------------------------------------------
\* validate_phone_number called directly on a string.

PhonePrefixes ==
    { <<"2", "5", "4", "7">>, <<"2", "5", "4", "1">>, <<"2", "5", "5", "7">>,
      <<"0", "7", "1", "2">>, <<"+", "2", "5", "4", "7">> }
PhoneMiddle == <<"1", "2", "3", "4", "5", "6", "7">>
PhoneLastChars == {"0", "8", "a", " ", "\n"}
PhoneTails == { <<>>, <<"\n">>, <<"9">>, <<"a">>, <<"\n", "\n">>, <<"9", "\n">> }

PhoneCandidates ==
    { p \o PhoneMiddle \o <<c>> \o tl :
          p \in PhonePrefixes, c \in PhoneLastChars, tl \in PhoneTails }
    \cup { p \o PhoneMiddle : p \in PhonePrefixes }
    \cup { <<>> }

InitPhone ==
    /\ Fresh
    /\ probe \in { [fn |-> "validate_phone_number", phone_number |-> p,
                    result |-> "pending"] : p \in PhoneCandidates }

ApplyValidatePhoneNumber ==
    /\ probe.fn = "validate_phone_number"
    /\ probe.result = "pending"
    /\ probe' = [probe EXCEPT !.result =
                    IF ValidatePhoneNumber(probe.phone_number) THEN "True" ELSE "False"]
    /\ UNCHANGED <<failed_payment_attempts, grace_period_end, now, call, net, notices,
                   ret, threads>>

NextPhone == ApplyValidatePhoneNumber

SpecPhone == InitPhone /\ [][NextPhone]_vars

\* C16  validate_phone_number returns True for exactly the strings made of
\* "2547" followed by exactly 8 decimal digits (12 characters in all), and
\* False for every other string, a string with a trailing newline included.
C16_PhoneFormatExact ==
    (probe.fn = "validate_phone_number" /\ probe.result # "pending") =>
        LET p == probe.phone_number
            wellFormed ==
                /\ Len(p) = 12
                /\ SubSeq(p, 1, 4) = <<"2", "5", "4", "7">>
                /\ \A i \in 5..12 :
                     p[i] \in {"0", "1", "2", "3", "4", "5", "6", "7", "8", "9"}
        IN probe.result = (IF wellFormed THEN "True" ELSE "False")

----------------------------------------------------------------------------
\* The POST /callback handlers of c_back.py and callback_server.py, called
\* with a JSON payload.  A JSON list is a sequence.

ItemAmount == [Name |-> PyStr("Amount"), Value |-> PyInt("800")]
ItemNoValue == [Name |-> PyStr("Balance")]
ItemNoName == [Value |-> PyInt("800")]

ResultCodeParts == {EmptyDict, [ResultCode |-> PyInt("0")], [ResultCode |-> PyInt("1032")]}
ResultDescParts == {EmptyDict, [ResultDesc |-> PyStr("The service request is processed.")]}
MetadataParts ==
    {EmptyDict, [CallbackMetadata |-> [Note |-> PyStr("no items")]]}
    \cup { [CallbackMetadata |-> [Item |-> items]] :
             items \in { <<>>, <<ItemAmount>>, <<ItemAmount, ItemNoValue>>, <<ItemNoName>> } }

CallbackPayloads ==
    { [Body |-> [stkCallback |-> rc @@ rd @@ md]] :
          rc \in ResultCodeParts, rd \in ResultDescParts, md \in MetadataParts }
    \cup { [Body |-> [MerchantRequestID |-> PyStr("29115-1")]],
           [Envelope |-> PyStr("x")] }

Response(status, key) == [status |-> status, body |-> key]
Pending == Response(0, "pending")

CBackIgnoresItems(data) ==
    IF "Body" \notin DOMAIN data THEN Response(500, "error")
    ELSE IF "stkCallback" \notin DOMAIN data.Body THEN Response(500, "error")
    ELSE LET cb == data.Body.stkCallback IN
         IF "ResultCode" \notin DOMAIN cb THEN Response(500, "error")
         ELSE IF "ResultDesc" \notin DOMAIN cb THEN Response(500, "error")
         ELSE IF cb.ResultCode # PyInt("0") THEN Response(200, "message")
         ELSE IF "CallbackMetadata" \notin DOMAIN cb THEN Response(500, "error")
         ELSE IF "Item" \notin DOMAIN cb.CallbackMetadata THEN Response(500, "error")
         ELSE Response(200, "message")

\* callback() of c_back.py: each subscript of a missing key raises KeyError,
\* which the except clause answers with status 500 and an "error" body.
CBack(data) ==
    IF "Body" \notin DOMAIN data THEN Response(500, "error")
    ELSE IF "stkCallback" \notin DOMAIN data.Body THEN Response(500, "error")
    ELSE LET cb == data.Body.stkCallback IN
         IF "ResultCode" \notin DOMAIN cb THEN Response(500, "error")
         ELSE IF "ResultDesc" \notin DOMAIN cb THEN Response(500, "error")
         ELSE IF cb.ResultCode # PyInt("0") THEN Response(200, "message")
         ELSE IF "CallbackMetadata" \notin DOMAIN cb THEN Response(500, "error")
         ELSE IF "Item" \notin DOMAIN cb.CallbackMetadata THEN Response(500, "error")
         ELSE LET metadata == cb.CallbackMetadata.Item IN
              IF \E i \in 1..Len(metadata) :
                    "Name" \notin DOMAIN metadata[i] \/ "Value" \notin DOMAIN metadata[i]
              THEN Response(500, "error")
              ELSE Response(200, "message")

\* callback() of callback_server.py: prints the payload and answers 200.
CallbackServer(data) == Response(200, "message")

CallbackApps == {"c_back", "callback_server"}

InitCallback ==
    /\ Fresh
    /\ probe \in { [fn |-> "callback", app |-> a, json |-> d, result |-> Pending] :
                       a \in CallbackApps, d \in CallbackPayloads }

PostCallback ==
    /\ probe.fn = "callback"
    /\ probe.result = Pending
    /\ probe' = [probe EXCEPT !.result =
                    IF probe.app = "c_back" THEN CBack(probe.json)
                    ELSE CallbackServer(probe.json)]
    /\ UNCHANGED <<failed_payment_attempts, grace_period_end, now, call, net, notices,
                   ret, threads>>

NextCallback == PostCallback

SpecCallback == InitCallback /\ [][NextCallback]_vars

\* A payload with Body.stkCallback.ResultCode and .ResultDesc, and, when
\* ResultCode is 0, CallbackMetadata.Item whose entries all have Name and Value.
WellFormedCallback(data) ==
    /\ "Body" \in DOMAIN data
    /\ "stkCallback" \in DOMAIN data.Body
    /\ {"ResultCode", "ResultDesc"} \subseteq DOMAIN data.Body.stkCallback
    /\ data.Body.stkCallback.ResultCode = PyInt("0") =>
         /\ "CallbackMetadata" \in DOMAIN data.Body.stkCallback
         /\ "Item" \in DOMAIN data.Body.stkCallback.CallbackMetadata
         /\ LET items == data.Body.stkCallback.CallbackMetadata.Item IN
            \A i \in 1..Len(items) : {"Name", "Value"} \subseteq DOMAIN items[i]

CallbackAnswered == probe' # probe /\ probe'.fn = "callback"

\* C17 (as claimed)  The POST /callback handler answers 200 with a "message"
\* body for every well-formed payload and 500 with an "error" body whenever a
\* required nested field is missing, and changes no FailureState.
C17_CallbackStatus ==
    [][ CallbackAnswered =>
          /\ probe'.result = IF WellFormedCallback(probe'.json)
                             THEN Response(200, "message")
                             ELSE Response(500, "error")
          /\ FailureStateUnchanged ]_vars

\* C17 (amended)  The handler of c_back.py answers 200 with a "message" body
\* for every well-formed payload and 500 with an "error" body whenever a
\* required nested field is missing; the handler of callback_server.py
\* answers 200 with a "message" body for every JSON payload, one with missing
\* fields included; neither changes FailureState.
C17_CallbackStatusPerApp ==
    [][ CallbackAnswered =>
          /\ probe'.app = "c_back" =>
               probe'.result = IF WellFormedCallback(probe'.json)
                               THEN Response(200, "message")
                               ELSE Response(500, "error")
          /\ probe'.app = "callback_server" => probe'.result = Response(200, "message")
          /\ FailureStateUnchanged ]_vars

C17_Witness ==
    /\ probe.fn = "callback"
    /\ probe.app = "c_back"
    /\ probe.json = [Body |-> [stkCallback |->
           [ResultCode |-> PyInt("0")]
           @@ [ResultDesc |-> PyStr("The service request is processed.")]
           @@ [CallbackMetadata |-> [Item |-> <<ItemAmount, ItemNoValue>>]]]]
    /\ probe.result = Response(500, "error")

----------------------------------------------------------------------------
\* Calls of initiate_payment running in parallel on one instance, one step at
\* a time.  The steps of a call: validation, the token GET, the push POST,
\* and within handle_payment_failure the read and the write of
\* "failed_payment_attempts += 1", the test "failed_payment_attempts == 1",
\* the write of grace_period_end and the read of grace_period_end.

ThreadTiers == {"pro", "gold"}
ThreadBranches == {5, MAX_BRANCHES_PER_ACTION + BranchSlack}

HandlerEntry == Request("HANDLER", "", EmptyDict, Exchange("", 0, EmptyDict))

Others == <<now, call, net, notices, ret, probe>>

\* Lines 87-99: validation.
TStart(t) ==
    /\ threads[t].pc = "start"
    /\ \E phone_number \in Phones, subscription_tier \in ThreadTiers,
          num_branches \in ThreadBranches :
         LET args == [phone_number |-> phone_number,
                      subscription_tier |-> subscription_tier,
                      num_branches |-> num_branches]
             invalid == Validation(phone_number, subscription_tier, num_branches)
         IN threads' = [threads EXCEPT ![t] =
               IF invalid # NotCalled
               THEN [@ EXCEPT !.pc = "done", !.args = args, !.ret = invalid]
               ELSE [@ EXCEPT !.pc = "token", !.args = args]]
    /\ UNCHANGED <<failed_payment_attempts, grace_period_end>>
    /\ UNCHANGED Others

\* Lines 110-113: get_access_token and the test of its result.
TToken(t) ==
    /\ threads[t].pc = "token"
    /\ \E tx \in TokenExchanges :
         LET get == Request("GET", "token_url", EmptyDict, tx) IN
         threads' = [threads EXCEPT ![t] =
             IF ~TokenAccepted(GetAccessToken(tx))
             THEN [@ EXCEPT !.pc = "done", !.ret = ReturnNone,
                            !.events = Append(@, get)]
             ELSE [@ EXCEPT !.pc = "post", !.events = Append(@, get)]]
    /\ UNCHANGED <<failed_payment_attempts, grace_period_end>>
    /\ UNCHANGED Others

\* Lines 138-154: the push request; a failure goes on to the handler and
\* keeps the value to return after it.
TPost(t) ==
    /\ threads[t].pc = "post"
    /\ \E px \in PushExchanges :
         LET a == threads[t].args
             total_amount == TotalAmount(SUBSCRIPTION_TIERS[Lower(a.subscription_tier)],
                                         a.num_branches)
             post == Request("POST", "stk_push_url",
                             Payload(a.phone_number, total_amount), px)
             out == PushOutcome(px)
         IN threads' = [threads EXCEPT ![t] =
               IF out.failed
               THEN [@ EXCEPT !.pc = "h_read", !.pending = out.result,
                              !.events = Append(@, post)]
               ELSE [@ EXCEPT !.pc = "done", !.ret = out.result,
                              !.events = Append(@, post)]]
    /\ UNCHANGED <<failed_payment_attempts, grace_period_end>>
    /\ UNCHANGED Others

\* Line 160, the read of "+= 1".
THRead(t) ==
    /\ threads[t].pc = "h_read"
    /\ threads' = [threads EXCEPT ![t] =
          [@ EXCEPT !.pc = "h_write", !.read = failed_payment_attempts,
                    !.events = Append(@, HandlerEntry)]]
    /\ UNCHANGED <<failed_payment_attempts, grace_period_end>>
    /\ UNCHANGED Others

\* Line 160, the write of "+= 1".
THWrite(t) ==
    /\ threads[t].pc = "h_write"
    /\ failed_payment_attempts' = threads[t].read + 1
    /\ threads' = [threads EXCEPT ![t] = [@ EXCEPT !.pc = "h_test"]]
    /\ UNCHANGED grace_period_end
    /\ UNCHANGED Others

\* Line 161: the test reads the field again.
THTest(t) ==
    /\ threads[t].pc = "h_test"
    /\ threads' = [threads EXCEPT ![t] =
          [@ EXCEPT !.read = failed_payment_attempts,
                    !.pc = IF failed_payment_attempts = 1 THEN "h_set" ELSE "h_compare"]]
    /\ UNCHANGED <<failed_payment_attempts, grace_period_end>>
    /\ UNCHANGED Others

\* Lines 162-163: the first-failure branch.
THSet(t) ==
    /\ threads[t].pc = "h_set"
    /\ grace_period_end' = GracePeriodEndAfter(threads[t].read, grace_period_end, now)
    /\ threads' = [threads EXCEPT ![t] =
          [@ EXCEPT !.pc = "done", !.ret = threads[t].pending]]
    /\ UNCHANGED failed_payment_attempts
    /\ UNCHANGED Others

\* Lines 165-168: the comparison with grace_period_end, which raises
\* TypeError when the field is still None.
THCompare(t) ==
    /\ threads[t].pc = "h_compare"
    /\ LET n == NoticeFor(threads[t].read, grace_period_end, now) IN
       threads' = [threads EXCEPT ![t] =
          [@ EXCEPT !.pc = "done",
                    !.ret = IF n.text = "TypeError" THEN Raise("TypeError")
                            ELSE threads[t].pending]]
    /\ UNCHANGED <<failed_payment_attempts, grace_period_end>>
    /\ UNCHANGED Others

NextThreads ==
    \E t \in Threads :
        \/ TStart(t) \/ TToken(t) \/ TPost(t)
        \/ THRead(t) \/ THWrite(t) \/ THTest(t) \/ THSet(t) \/ THCompare(t)

SpecThreads == Init /\ [][NextThreads]_vars

\* C18  Step ordering within one call: a call that passes validation performs
\* exactly one token GET and then at most one push POST, in that order; the
\* POST follows a token GET of the same call that returned a non-empty token;
\* handle_payment_failure runs only after the POST of the same call.
C18_StepOrdering ==
    \A t \in Threads :
        LET th == threads[t]
            ev == th.events
            passed == /\ ValidatePhoneNumber(th.args.phone_number)
                      /\ th.args.num_branches <= 10
                      /\ th.args.subscription_tier \in {"starter", "pro", "enterprise"}
        IN
        /\ Len(ev) <= 3
        /\ Len(ev) >= 1 => ev[1].method = "GET"
        /\ Len(ev) >= 2 => ev[2].method = "POST"
        /\ Len(ev) >= 3 => ev[3].method = "HANDLER"
        /\ (th.pc = "done" /\ passed) => Len(ev) >= 1
        /\ (th.pc \notin {"start", "done"}) => passed
        /\ th.pc \in {"h_read"} => Len(ev) = 2
        /\ Len(ev) >= 2 =>
             /\ ev[1].exchange.error = ""
             /\ ev[1].exchange.status = 200
             /\ "access_token" \in DOMAIN ev[1].exchange.json
             /\ ev[1].exchange.json["access_token"] # PyStr("")

C18_Witness ==
    /\ threads["t1"].pc = "done"
    /\ Len(threads["t1"].events) = 3
    /\ threads["t2"].pc = "done"
    /\ Len(threads["t2"].events) = 2
    /\ threads["t2"].ret.kind = "dict"

\* C19  Concurrent failures on a shared instance: in every interleaving of two
\* calls that fail at the push step, no handler compares the time with an
\* unset grace_period_end (no call ends in TypeError), and grace_period_end is
\* set once both handlers have finished.
C19_ConcurrentHandlersSafe ==
    /\ \A t \in Threads : threads[t].ret.kind # "TypeError"
    /\ (\A t \in Threads : threads[t].pc = "done" /\ Len(threads[t].events) = 3)
         => grace_period_end # {}

====
